---- MODULE Spec2Model ----
(***************************************************************************)
(* Model of the factorio-optimizer solver (src/src/solver.rs) and of the   *)
(* domain records it reads (src/src/factorio.rs).                          *)
(*                                                                         *)
(* Numbers.  The program computes in f64.  Every quantity used here is a   *)
(* dyadic rational that f64 holds exactly; a machine's production_rate is  *)
(* kept as a fraction [num, den], every per-minute rate is an integer.     *)
(*                                                                         *)
(* Backend.  good_lp's default solver is outside the repository.  It is    *)
(* modelled by what it is used for: it returns an assignment that          *)
(* satisfies the variable bounds and every constraint and minimises the    *)
(* objective, or reports that there is none.                               *)
(***************************************************************************)
EXTENDS Integers, Sequences, FiniteSets, TLC

VARIABLES
    model,                   \* the Model every solver of the run is bound to
    production_constraints,  \* per solver: the registry, product -> rate
    result,                  \* per solver: what its latest solve() returned
    last_call                \* the call that was made last

vars == <<model, production_constraints, result, last_call>>

(***************************************************************************)
(* Bounds                                                                  *)
(***************************************************************************)
\* largest value the backend tries for an integer variable
MaxCount == 3

(***************************************************************************)
(* Generic helpers                                                         *)
(***************************************************************************)
Range(seq) == {seq[i] : i \in DOMAIN seq}

\* Option<f64>: <<>> is None, <<x>> is Some(x)
None == <<>>
Some(x) == <<x>>

\* HashMap::new()
EmptyMap == [x \in {} |-> 0]

\* HashMap::get(key).copied()
MapGet(map, key) == IF key \in DOMAIN map THEN Some(map[key]) ELSE None

\* mutant: entry(key).or_insert(value), which keeps an earlier value
MapInsert_KeepFirst(map, key, value) ==
    [k \in DOMAIN map \cup {key} |-> IF k \in DOMAIN map THEN map[k] ELSE value]

\* HashMap::insert(key, value)
MapInsert(map, key, value) ==
    [k \in DOMAIN map \cup {key} |-> IF k = key THEN value ELSE map[k]]

(***************************************************************************)
(* Domain catalog (factorio.rs)                                            *)
(***************************************************************************)
\* Machine::new(name, production_rate); production_rate = num / den
Machine(name, num, den) ==
    [name |-> name, production_rate |-> [num |-> num, den |-> den]]

\* Product::new(name): a product is its name
Product(name) == name

\* Recipe::new(name, production_time, usage, production)
Recipe(name, production_time, usage, production) ==
    [name |-> name, production_time |-> production_time,
     usage |-> usage, production |-> production]

\* Recipe::usage_of
usage_of(recipe, product) == MapGet(recipe.usage, product)

\* Recipe::production_of
production_of(recipe, product) == MapGet(recipe.production, product)

\* Model::new(recipies, products, machines)
ModelNew(recipies, products, machines) ==
    [recipies |-> recipies, products |-> products, machines |-> machines]

(***************************************************************************)
(* The catalogs the solver is exercised on                                 *)
(***************************************************************************)
Drill == Machine("Electric mining drill", 1, 2)
Fast == Machine("Fast drill", 1, 1)

Coal == Product("Coal")
Plate == Product("Plate")
Stone == Product("Stone")

\* every product a caller may name; no catalog lists all of them
AllProducts == {Coal, Plate, Stone}

\* the target rates a caller may register (units per minute)
Rates == {-30, 0, 30, 45}

Mining(time, qty) == Recipe("Coal mining", time, EmptyMap, (Coal :> qty))
Smelting == Recipe("Smelting", 1, (Coal :> 1), (Plate :> 1))
Enriching == Recipe("Enriching", 1, (Coal :> 1), (Coal :> 2))

\* one machine, one product, one recipe that only produces (the test's shape)
CoalTest == ModelNew(<<Mining(1, 1)>>, <<Coal>>, <<Drill>>)

SingleCatalogs ==
    {ModelNew(<<Mining(t, q)>>, <<Coal>>, <<m>>) :
        t \in {1, 2}, q \in {1, 2}, m \in {Drill, Fast}}

ChainCatalog == ModelNew(<<Mining(1, 1), Smelting>>, <<Coal, Plate>>, <<Drill>>)

Catalogs ==
    SingleCatalogs \cup
    { ChainCatalog,
      \* Stone is touched by no recipe
      ModelNew(<<Mining(1, 1)>>, <<Coal, Stone>>, <<Drill>>),
      \* Coal is consumed and never produced
      ModelNew(<<Smelting>>, <<Coal, Plate>>, <<Drill>>),
      \* Coal is outside the product list
      ModelNew(<<Smelting>>, <<Plate>>, <<Drill>>),
      \* two machines for one recipe
      ModelNew(<<Mining(1, 1)>>, <<Coal>>, <<Drill, Fast>>),
      \* a recipe that uses and produces the same product
      ModelNew(<<Enriching>>, <<Coal>>, <<Drill>>),
      \* no machine at all
      ModelNew(<<Mining(1, 1)>>, <<Coal>>, <<>>) }

\* the catalogs on which two solvers are run side by side
PairCatalogs ==
    { CoalTest,
      ModelNew(<<Mining(1, 1)>>, <<Coal>>, <<Drill, Fast>>) }

\* the solvers of one run; they are bound to the same Model
Solvers == {1, 2}

(***************************************************************************)
(* Linear expressions and constraints (good_lp::Expression, constraint!)   *)
(***************************************************************************)
\* variables! {} after every vars.add of solve(): ids, kinds, lower bounds
MachineVar(m, r) == <<"machines", m.name, r.name>>
OverflowVar(p) == <<"overflow", p, "">>

\* mutant: the machine counts are declared with min(1)
ProblemVariables_MinOne ==
    {[id |-> MachineVar(m, r), integer |-> TRUE, min |-> 1] :
        m \in Range(model.machines), r \in Range(model.recipies)}
    \cup
    {[id |-> OverflowVar(p), integer |-> FALSE, min |-> 0] :
        p \in Range(model.products)}

ProblemVariables ==
    {[id |-> MachineVar(m, r), integer |-> TRUE, min |-> 0] :
        m \in Range(model.machines), r \in Range(model.recipies)}
    \cup
    {[id |-> OverflowVar(p), integer |-> FALSE, min |-> 0] :
        p \in Range(model.products)}

VarIds == {v.id : v \in ProblemVariables}

\* Expression::from_other_affine(constant)
ExprConst(c) == [coef |-> [v \in VarIds |-> 0], const |-> c]

\* Expression::from_other_affine(variable)
ExprVar(id) == [coef |-> [v \in VarIds |-> IF v = id THEN 1 ELSE 0], const |-> 0]

ExprAdd(a, b) ==
    [coef |-> [v \in DOMAIN a.coef |-> a.coef[v] + b.coef[v]],
     const |-> a.const + b.const]

ExprSub(a, b) ==
    [coef |-> [v \in DOMAIN a.coef |-> a.coef[v] - b.coef[v]],
     const |-> a.const - b.const]

ExprScale(k, a) ==
    [coef |-> [v \in DOMAIN a.coef |-> k * a.coef[v]], const |-> k * a.const]

\* iterator .sum() / .fold(0, |acc, x| acc + x) over a sequence of expressions
RECURSIVE ExprSum(_)
ExprSum(seq) ==
    IF seq = <<>> THEN ExprConst(0)
    ELSE ExprAdd(ExprSum(SubSeq(seq, 1, Len(seq) - 1)), seq[Len(seq)])

RECURSIVE SumOver(_, _)
SumOver(S, f) ==
    IF S = {} THEN 0
    ELSE LET x == CHOOSE y \in S : TRUE IN f[x] + SumOver(S \ {x}, f)

\* Solution::eval(expression)
Eval(expr, a) ==
    expr.const
        + SumOver(DOMAIN expr.coef, [v \in DOMAIN expr.coef |-> expr.coef[v] * a[v]])


\* constraint!(lhs == rhs), constraint!(lhs >= rhs)
Constraint(lhs, op, rhs) == [lhs |-> lhs, op |-> op, rhs |-> rhs]

Holds(c, a) ==
    IF c.op = "==" THEN Eval(c.lhs, a) = Eval(c.rhs, a)
    ELSE Eval(c.lhs, a) >= Eval(c.rhs, a)

(***************************************************************************)
(* Solver::solve: formulation (solver.rs 68-182)                           *)
(***************************************************************************)
SecondsPerMinute == 60

\* mutant: the cycle time is left out of the rate conversion
PerMinute_IgnoreTime(machine, rate, recipe) ==
    (machine.production_rate.num * rate * SecondsPerMinute)
        \div machine.production_rate.den

\* machine.production_rate() * rate * (60.0 / recipe.production_time())
PerMinute(machine, rate, recipe) ==
    (machine.production_rate.num * rate * SecondsPerMinute)
        \div (machine.production_rate.den * recipe.production_time)

\* the HashMap (machine, recipe) -> variable; keys compare by name
machines ==
    [k \in {<<m.name, r.name>> :
                m \in Range(model.machines), r \in Range(model.recipies)}
        |-> <<"machines", k[1], k[2]>>]

\* the HashMap product -> overflow variable
overflow == [p \in Range(model.products) |-> OverflowVar(p)]

\* sum of the values of the machines map
objective ==
    LET keys == DOMAIN machines
        coefs == [v \in VarIds |-> IF \E k \in keys : machines[k] = v THEN 1 ELSE 0]
    IN  [coef |-> coefs, const |-> 0]

\* the fold over the machines for one recipe and one per-cycle quantity
MachineFold(recipe, rate) ==
    ExprSum([j \in DOMAIN model.machines |->
        LET machine == model.machines[j] IN
        ExprScale(PerMinute(machine, rate, recipe),
                  ExprVar(machines[<<machine.name, recipe.name>>]))])

\* production_rate of the balance loop: absent entries give the constant 0
production_rate(p) ==
    ExprSum([i \in DOMAIN model.recipies |->
        LET recipe == model.recipies[i]
            rate == production_of(recipe, p)
        IN  IF rate = None THEN ExprConst(0) ELSE MachineFold(recipe, rate[1])])

\* consumption_rate of the balance loop
consumption_rate(p) ==
    ExprSum([i \in DOMAIN model.recipies |->
        LET recipe == model.recipies[i]
            rate == usage_of(recipe, p)
        IN  IF rate = None THEN ExprConst(0) ELSE MachineFold(recipe, rate[1])])

\* overflow.get(p).map_or_else(|| 0, from_other_affine)
extra(p) ==
    LET v == MapGet(overflow, p)
    IN  IF v = None THEN ExprConst(0) ELSE ExprVar(v[1])

\* mutant: the balance is added as an inequality
BalanceConstraint_AtLeast(p) ==
    Constraint(ExprSub(production_rate(p), consumption_rate(p)), ">=", extra(p))

\* production_rate - consumption_rate == extra, for one product
BalanceConstraint(p) ==
    Constraint(ExprSub(production_rate(p), consumption_rate(p)), "==", extra(p))

\* mutant: the target loop reads production_of where it should read usage_of
target_consumption_rate_Production(p) ==
    ExprSum([i \in DOMAIN model.recipies |->
        LET recipe == model.recipies[i]
            rate == production_of(recipe, p)
        IN  MachineFold(recipe, IF rate = None THEN 0 ELSE rate[1])])

\* consumption_rate of the target loop: rate.unwrap_or(0.0)
target_consumption_rate(p) ==
    ExprSum([i \in DOMAIN model.recipies |->
        LET recipe == model.recipies[i]
            rate == usage_of(recipe, p)
        IN  MachineFold(recipe, IF rate = None THEN 0 ELSE rate[1])])

\* mutant: the target is added as an upper limit
TargetConstraint_AtMost(p, v) ==
    Constraint(ExprConst(v), ">=", ExprAdd(target_consumption_rate(p), extra(p)))

\* consumption_rate + extra >= needed_production, for one registry entry
TargetConstraint(p, v) ==
    Constraint(ExprAdd(target_consumption_rate(p), extra(p)), ">=", ExprConst(v))

\* mutant: products that no recipe names get no balance equation
BalanceConstraints_TouchedOnly ==
    {BalanceConstraint(p) :
        p \in {q \in Range(model.products) :
                    \E r \in Range(model.recipies) :
                        q \in DOMAIN r.usage \cup DOMAIN r.production}}

\* the constraints added by the loop over the product list
BalanceConstraints == {BalanceConstraint(p) : p \in Range(model.products)}

\* mutant: the registry is never turned into constraints
TargetConstraints_None(registry) == {}

\* the constraints added by the loop over the registry
TargetConstraints(registry) ==
    {TargetConstraint(p, registry[p]) : p \in DOMAIN registry}

\* the problem handed to the backend
Problem(registry) ==
    [variables |-> ProblemVariables,
     objective |-> objective,
     constraints |-> BalanceConstraints \cup TargetConstraints(registry)]

(***************************************************************************)
(* The backend (problem.solve(), solver.rs 184)                            *)
(*                                                                         *)
(* Integer variables range over min..MaxCount.  A continuous variable      *)
(* occurs in this program with coefficient 1 or -1 and never together with *)
(* another continuous variable, so the values it can take in a solution    *)
(* form an interval whose ends are its lower bound or make a constraint    *)
(* tight; those ends are the candidates tried.                             *)
(***************************************************************************)
IntegerIds(problem) == {v.id : v \in {w \in problem.variables : w.integer}}
ContinuousIds(problem) == {v.id : v \in {w \in problem.variables : ~w.integer}}

LowerBound(problem, id) == (CHOOSE v \in problem.variables : v.id = id).min

Candidates(problem, id, ia) ==
    LET lower == LowerBound(problem, id)
        a0 == [v \in {w.id : w \in problem.variables} |->
                    IF v \in DOMAIN ia THEN ia[v] ELSE 0]
        Tight(c) ==
            LET d == c.lhs.coef[id] - c.rhs.coef[id]
                gap == Eval(c.lhs, a0) - Eval(c.rhs, a0)
            IN  (0 - gap) * d
        touching == {c \in problem.constraints :
                        c.lhs.coef[id] - c.rhs.coef[id] \in {1, -1}}
    IN  {x \in {lower} \cup {Tight(c) : c \in touching} : x >= lower}

Extensions(problem, ia) ==
    LET cont == ContinuousIds(problem)
        cand == [id \in cont |-> Candidates(problem, id, ia)]
        pool == UNION {cand[id] : id \in cont}
    IN  {[v \in cont \cup DOMAIN ia |-> IF v \in cont THEN ca[v] ELSE ia[v]] :
            ca \in {f \in [cont -> pool] : \A id \in cont : f[id] \in cand[id]}}

\* the values tried for the integer variables
IntegerAssignments(problem) ==
    LET ints == IntegerIds(problem)
    IN  {ia \in [ints -> 0..MaxCount] : \A id \in ints : ia[id] >= LowerBound(problem, id)}

\* every assignment that satisfies the bounds and the constraints
FeasibleSolutions(problem) ==
    LET all == UNION {Extensions(problem, ia) : ia \in IntegerAssignments(problem)}
    IN  {a \in all : \A c \in problem.constraints : Holds(c, a)}

\* the feasible assignments of least objective value
OptimalSolutions(problem) ==
    LET feasible == FeasibleSolutions(problem)
    IN  {a \in feasible :
            \A b \in feasible : Eval(problem.objective, a) <= Eval(problem.objective, b)}

\* what the backend answers: the least objective value, or no solution
OutcomeOf(problem) ==
    LET optimal == OptimalSolutions(problem)
    IN  IF optimal = {} THEN [status |-> "Infeasible", value |-> 0]
        ELSE [status |-> "Ok",
              value |-> Eval(problem.objective, CHOOSE a \in optimal : TRUE)]

(***************************************************************************)
(* Results                                                                 *)
(***************************************************************************)
\* no solve() has returned yet
NoResult == [status |-> "None", value |-> 0, solution |-> EmptyMap, registry |-> EmptyMap]

\* Ok(solution.eval(objective)); solution and registry record what it came from
Ok(value, solution, registry) ==
    [status |-> "Ok", value |-> value, solution |-> solution, registry |-> registry]

\* Err(ResolutionError::Infeasible) through the ? operator
Err(registry) ==
    [status |-> "Infeasible", value |-> 0, solution |-> EmptyMap, registry |-> registry]

(***************************************************************************)
(* Operations                                                              *)
(***************************************************************************)
Call(s, op, product) == [solver |-> s, op |-> op, product |-> product]

\* Solver::new(model) for every solver of the run
Init ==
    /\ model \in Catalogs
    /\ production_constraints = [s \in Solvers |-> EmptyMap]
    /\ result = [s \in Solvers |-> NoResult]
    /\ last_call = Call(0, "new", "")

\* Vec::contains on the product list
Contains(products, product) == \E i \in DOMAIN products : products[i] = product

\* mutant: the product list is not consulted
add_production_constraint_Unchecked(s, product, amount_per_minute) ==
    /\ production_constraints' =
            [production_constraints EXCEPT
                ![s] = MapInsert(@, product, amount_per_minute)]
    /\ last_call' = Call(s, "add_production_constraint", product)
    /\ UNCHANGED <<model, result>>

\* Solver::add_production_constraint
add_production_constraint(s, product, amount_per_minute) ==
    /\ IF Contains(model.products, product)
       THEN production_constraints' =
                [production_constraints EXCEPT
                    ![s] = MapInsert(@, product, amount_per_minute)]
       ELSE UNCHANGED production_constraints
    /\ last_call' = Call(s, "add_production_constraint", product)
    /\ UNCHANGED <<model, result>>

\* mutant: a value once computed is returned again without solving
solve_Cached(s) ==
    LET registry == production_constraints[s]
        problem == Problem(registry)
        optimal == OptimalSolutions(problem)
    IN  /\ IF result[s].status = "Ok"
           THEN result' = [result EXCEPT ![s].registry = registry]
           ELSE IF optimal = {}
           THEN result' = [result EXCEPT ![s] = Err(registry)]
           ELSE \E a \in optimal :
                    result' = [result EXCEPT
                        ![s] = Ok(Eval(problem.objective, a), a, registry)]
        /\ last_call' = Call(s, "solve", "")
        /\ UNCHANGED <<model, production_constraints>>

\* Solver::solve
solve(s) ==
    LET registry == production_constraints[s]
        problem == Problem(registry)
        optimal == OptimalSolutions(problem)
    IN  /\ IF optimal = {}
           THEN result' = [result EXCEPT ![s] = Err(registry)]
           ELSE \E a \in optimal :
                    result' = [result EXCEPT
                        ![s] = Ok(Eval(problem.objective, a), a, registry)]
        /\ last_call' = Call(s, "solve", "")
        /\ UNCHANGED <<model, production_constraints>>

\* one solver in use
Next ==
    \/ \E product \in AllProducts, rate \in Rates :
            add_production_constraint(1, product, rate)
    \/ solve(1)

Spec == Init /\ [][Next]_vars

\* two solvers over one Model, used in any interleaving
InitPair == Init /\ model \in PairCatalogs

NextPair ==
    \/ \E s \in Solvers, product \in AllProducts, rate \in Rates :
            add_production_constraint(s, product, rate)
    \/ \E s \in Solvers : solve(s)

SpecPair == InitPair /\ [][NextPair]_vars

(***************************************************************************)
(* The quantities the properties speak of, computed from the records       *)
(* directly: sums over all (machine, recipe) pairs, in exact arithmetic.   *)
(* Every rate is scaled by RateDen, the product of all denominators.       *)
(***************************************************************************)
RECURSIVE ProductOf(_)
ProductOf(seq) ==
    IF seq = <<>> THEN 1 ELSE seq[1] * ProductOf(Tail(seq))

RateDen ==
    ProductOf([i \in DOMAIN model.machines |-> model.machines[i].production_rate.den])
    * ProductOf([i \in DOMAIN model.recipies |-> model.recipies[i].production_time])

Pairs == {<<m, r>> : m \in Range(model.machines), r \in Range(model.recipies)}

QtyOrZero(map, p) == IF p \in DOMAIN map THEN map[p] ELSE 0

\* RateDen * m.production_rate * qty * (60 / r.production_time)
ScaledRate(m, qty, r) ==
    (m.production_rate.num * qty * 60 * RateDen)
        \div (m.production_rate.den * r.production_time)

\* RateDen * total per-minute production of p under the counts of a
ScaledProduction(p, a) ==
    SumOver(Pairs, [k \in Pairs |->
        ScaledRate(k[1], QtyOrZero(k[2].production, p), k[2]) * a[MachineVar(k[1], k[2])]])

\* RateDen * total per-minute consumption of p under the counts of a
ScaledConsumption(p, a) ==
    SumOver(Pairs, [k \in Pairs |->
        ScaledRate(k[1], QtyOrZero(k[2].usage, p), k[2]) * a[MachineVar(k[1], k[2])]])

TotalCount(a) == SumOver(Pairs, [k \in Pairs |-> a[MachineVar(k[1], k[2])]])

\* a satisfies every balance equation and every target inequality of registry
Satisfies(a, registry) ==
    /\ \A v \in DOMAIN a : a[v] >= 0
    /\ \A p \in Range(model.products) :
            ScaledProduction(p, a) - ScaledConsumption(p, a) = RateDen * a[OverflowVar(p)]
    /\ \A p \in DOMAIN registry :
            ScaledConsumption(p, a) + RateDen * a[OverflowVar(p)] >= RateDen * registry[p]

\* the counts c can be completed by some overflow to a satisfying assignment
CountsSatisfy(c, registry) ==
    /\ \A p \in Range(model.products) :
            ScaledProduction(p, c) - ScaledConsumption(p, c) >= 0
    /\ \A p \in DOMAIN registry :
            ScaledProduction(p, c) >= RateDen * registry[p]

AllCounts == [{MachineVar(k[1], k[2]) : k \in Pairs} -> 0..MaxCount]

\* one machine, one product, one recipe that produces it and consumes nothing
IsSingle ==
    /\ Len(model.machines) = 1 /\ Len(model.products) = 1 /\ Len(model.recipies) = 1
    /\ DOMAIN model.recipies[1].usage = {}
    /\ DOMAIN model.recipies[1].production = {model.products[1]}

Returned(s) == result[s].status # "None"

(***************************************************************************)
(* Properties                                                              *)
(***************************************************************************)
\* C1: when solve() returns a value, the accepted assignment satisfies every
\* balance equation and every registered target, the value is its total
\* machine count, and no satisfying assignment has a smaller count.  For one
\* machine of rate b, one product and one recipe of time t producing q and
\* consuming nothing, with target T > 0, solve() returns the least n with
\* n * b * q * (60 / t) >= T; for the coal test it returns 1.
C1_MinimumCount ==
    \A s \in Solvers :
        LET res == result[s]
            T == res.registry[model.products[1]]
            m == model.machines[1]
            r == model.recipies[1]
            q == r.production[model.products[1]]
            lhs(n) == n * m.production_rate.num * q * 60
            rhs == T * m.production_rate.den * r.production_time
        IN  /\ res.status = "Ok" =>
                /\ Satisfies(res.solution, res.registry)
                /\ res.value = TotalCount(res.solution)
                /\ \A c \in AllCounts :
                        CountsSatisfy(c, res.registry) => TotalCount(c) >= res.value
            /\ (Returned(s) /\ IsSingle /\ DOMAIN res.registry # {} /\ T > 0) =>
                /\ res.status = "Ok"
                /\ lhs(res.value) >= rhs
                /\ lhs(res.value - 1) < rhs
            /\ (Returned(s) /\ model = CoalTest /\ res.registry = (Coal :> 30)) =>
                /\ res.status = "Ok" /\ res.value = 1

\* a single-recipe catalog whose target needs more than one machine
C1_Witness ==
    /\ IsSingle
    /\ result[1].status = "Ok"
    /\ result[1].registry = (Coal :> 45)
    /\ model.recipies[1].production_time = 2
    /\ result[1].value = 3

\* the target inequalities of solver s's problem that bound overflow[p]
TargetsOf(s, p) ==
    {c \in Problem(production_constraints[s]).constraints :
        c.op = ">=" /\ c.lhs.coef[OverflowVar(p)] = 1}

\* C2: a registration of a listed product leaves exactly one entry for it,
\* holding the rate just registered (not the earlier rate, not a sum), and
\* leaves every other entry alone; the problem solve() builds has exactly one
\* target inequality per registered product, with the registered rate.
C2_LastRegistrationWins ==
    /\ [](\A s \in Solvers :
            /\ (last_call.solver = s /\ last_call.op = "add_production_constraint"
                    /\ last_call.product \in Range(model.products))
                => last_call.product \in DOMAIN production_constraints[s]
            /\ Cardinality({c \in Problem(production_constraints[s]).constraints :
                                c.op = ">="})
                    = Cardinality(DOMAIN production_constraints[s])
            /\ \A p \in DOMAIN production_constraints[s] :
                /\ Cardinality(TargetsOf(s, p)) = 1
                /\ \A c \in TargetsOf(s, p) :
                        c.rhs = ExprConst(production_constraints[s][p]))
    /\ [][\A s \in Solvers, product \in AllProducts, rate \in Rates :
            (add_production_constraint(s, product, rate)
                    /\ product \in Range(model.products))
                => /\ DOMAIN production_constraints'[s]
                        = DOMAIN production_constraints[s] \cup {product}
                   /\ production_constraints'[s][product] = rate
                   /\ \A p \in DOMAIN production_constraints[s] \ {product} :
                        production_constraints'[s][p] = production_constraints[s][p]]_vars

\* Coal was registered at 30, solved, and has just been registered again at 45
C2_Witness ==
    /\ last_call = Call(1, "add_production_constraint", Coal)
    /\ result[1].status = "Ok"
    /\ result[1].registry = (Coal :> 30)
    /\ production_constraints[1] = (Coal :> 45)

\* C3: a registration of a product that is not in the product list changes
\* neither the registry nor anything else a solve() reads or returned; a
\* solve() made right after it returns what the solve() before it returned;
\* and every key of every registry is a product of the product list.
C3_UnknownProductNoOp ==
    /\ [](\A s \in Solvers :
            DOMAIN production_constraints[s] \subseteq Range(model.products))
    /\ [][\A s \in Solvers, product \in AllProducts, rate \in Rates :
            (add_production_constraint(s, product, rate)
                    /\ product \notin Range(model.products))
                => UNCHANGED <<model, production_constraints, result>>]_vars
    /\ [][\A s \in Solvers :
            (/\ last_call' = Call(s, "solve", "")
             /\ last_call.solver = s
             /\ last_call.op = "add_production_constraint"
             /\ last_call.product \notin Range(model.products)
             /\ Returned(s)
             /\ result[s].registry = production_constraints[s])
                => /\ result'[s].status = result[s].status
                   /\ result'[s].value = result[s].value]_vars

\* an unknown product has just been registered on a solver with a target
C3_Witness ==
    /\ last_call.op = "add_production_constraint"
    /\ last_call.solver = 1
    /\ last_call.product \notin Range(model.products)
    /\ production_constraints[1] = (Coal :> 30)
    /\ result[1].status = "Ok"

\* no recipe names p in its usage or its production
Untouched(p) ==
    \A r \in Range(model.recipies) : p \notin DOMAIN r.usage \cup DOMAIN r.production

\* C4: a listed product with a positive target that no recipe uses or
\* produces makes solve() fail as infeasible; its balance equation is
\* 0 == overflow[p] and its target inequality is overflow[p] >= target.
C4_UntouchedTargetInfeasible ==
    \A s \in Solvers :
        /\ \A p \in Range(model.products) :
            Untouched(p) =>
                /\ BalanceConstraint(p) =
                        Constraint(ExprConst(0), "==", ExprVar(OverflowVar(p)))
                /\ \A v \in Rates :
                        TargetConstraint(p, v) =
                            Constraint(ExprVar(OverflowVar(p)), ">=", ExprConst(v))
        /\ (Returned(s) /\ \E p \in DOMAIN result[s].registry :
                                result[s].registry[p] > 0 /\ Untouched(p))
                => result[s].status = "Infeasible"

\* solve() has answered for a positive target on the untouched Stone
C4_Witness ==
    /\ Stone \in Range(model.products)
    /\ Untouched(Stone)
    /\ Returned(1)
    /\ Stone \in DOMAIN result[1].registry
    /\ result[1].registry[Stone] = 30
    /\ result[1].status = "Infeasible"

\* the registries got from R2 by dropping one entry or lowering one rate
LowerNeighbours(R2) ==
    {[p \in DOMAIN R2 \ {q} |-> R2[p]] : q \in DOMAIN R2}
    \cup UNION {{[R2 EXCEPT ![q] = v] : v \in {w \in Rates : w < R2[q]}} :
                    q \in DOMAIN R2}

\* C5: if solve() returned a value under registry R2, then under every
\* registry R1 got from R2 by lowering one rate or dropping one entry the
\* problem has a solution too and its least count is not above that value.
C5_Monotone ==
    \A s \in Solvers :
        result[s].status = "Ok" =>
            \A R1 \in LowerNeighbours(result[s].registry) :
                LET o == OutcomeOf(Problem(R1))
                IN  o.status = "Ok" /\ o.value <= result[s].value

\* a registry with two targets whose lowering strictly lowers the optimum
C5_Witness ==
    /\ model = ChainCatalog
    /\ result[1].status = "Ok"
    /\ result[1].registry = (Coal :> 30) @@ (Plate :> 45)
    /\ result[1].value = 4
    /\ OutcomeOf(Problem((Coal :> 30) @@ (Plate :> 30))).value = 2

C7_Stateless ==
    /\ [](\A s, t \in Solvers :
            (Returned(s) /\ Returned(t) /\ result[s].registry = result[t].registry)
                => /\ result[s].status = result[t].status
                   /\ result[s].value = result[t].value)
    /\ [][\A s \in Solvers :
            last_call' = Call(s, "solve", "")
                => /\ UNCHANGED <<model, production_constraints>>
                   /\ result'[s].registry = production_constraints[s]
                   /\ \A t \in Solvers \ {s} : result'[t] = result[t]
                   /\ (Returned(s) /\ result[s].registry = production_constraints[s])
                        => /\ result'[s].status = result[s].status
                           /\ result'[s].value = result[s].value]_vars

\* both solvers solved for Coal at 30, reached differently, and were handed
\* different optimal assignments
C7_Witness ==
    /\ Len(model.machines) = 2
    /\ result[1].status = "Ok" /\ result[2].status = "Ok"
    /\ result[1].registry = (Coal :> 30)
    /\ result[2].registry = (Coal :> 30)
    /\ result[1].solution # result[2].solution
    /\ production_constraints[1] # production_constraints[2]

\* C8: an accepted assignment may leave no surplus of a product with a
\* positive target; the target is then covered by the per-minute consumption
\* of that product alone.
C8_TargetMetByConsumption ==
    \A s \in Solvers :
        result[s].status = "Ok" =>
            \A p \in DOMAIN result[s].registry :
                (result[s].registry[p] > 0 /\ result[s].solution[OverflowVar(p)] = 0)
                    => ScaledConsumption(p, result[s].solution)
                            >= RateDen * result[s].registry[p]

\* Coal has a target of 30, is mined by one recipe and smelted by another,
\* and the accepted assignment leaves no Coal over
C8_Witness ==
    /\ model = ChainCatalog
    /\ result[1].status = "Ok"
    /\ result[1].registry = (Coal :> 30) @@ (Plate :> 30)
    /\ result[1].solution[OverflowVar(Coal)] = 0
    /\ result[1].solution[MachineVar(Drill, Mining(1, 1))] = 1
    /\ result[1].solution[MachineVar(Drill, Smelting)] = 1
    /\ Satisfies(result[1].solution, result[1].registry)

\* the problem whose targets read 'total production of p >= target'
ProductionTarget(p, v) == Constraint(production_rate(p), ">=", ExprConst(v))

ProductionProblem(registry) ==
    [variables |-> ProblemVariables,
     objective |-> objective,
     constraints |-> BalanceConstraints
                        \cup {ProductionTarget(p, registry[p]) : p \in DOMAIN registry}]

Unproduced(p) == \A r \in Range(model.recipies) : p \notin DOMAIN r.production

\* C9: on every assignment that satisfies the balance equation of a
\* registered product p, the left side of p's target inequality equals the
\* total per-minute production of p; the assignments the problem admits, and
\* what solve() returns, are those of the problem whose targets read
\* 'production of p >= target'; a positive target on a product that no
\* recipe produces makes solve() fail.
C9_TargetIsProduction ==
    \A s \in Solvers :
        LET R == production_constraints[s]
            problem == Problem(R)
        IN  /\ \A p \in DOMAIN R :
                \A ia \in IntegerAssignments(problem) :
                    \A a \in Extensions(problem, ia) :
                        Holds(BalanceConstraint(p), a)
                            => Eval(TargetConstraint(p, R[p]).lhs, a)
                                    = Eval(production_rate(p), a)
            /\ FeasibleSolutions(problem) = FeasibleSolutions(ProductionProblem(R))
            /\ Returned(s) =>
                /\ [status |-> result[s].status, value |-> result[s].value]
                        = OutcomeOf(ProductionProblem(result[s].registry))
                /\ (\E p \in DOMAIN result[s].registry :
                        result[s].registry[p] > 0 /\ Unproduced(p))
                    => result[s].status = "Infeasible"

\* Coal is smelted and never produced, and solve() failed on its target
C9_Witness ==
    /\ Coal \in Range(model.products)
    /\ Unproduced(Coal)
    /\ \E r \in Range(model.recipies) : Coal \in DOMAIN r.usage
    /\ Returned(1)
    /\ result[1].registry = (Coal :> 30)
    /\ result[1].status = "Infeasible"

\* C10: when no registered target is positive (none registered, every
\* registration dropped, or every rate <= 0) solve() succeeds and returns 0;
\* the all-zero assignment satisfies every balance equation; a returned
\* value is never negative.
C10_NoTargetIsZero ==
    \A s \in Solvers :
        /\ \A p \in Range(model.products) :
                Holds(BalanceConstraint(p), [v \in VarIds |-> 0])
        /\ (Returned(s) /\ \A p \in DOMAIN result[s].registry :
                                result[s].registry[p] <= 0)
                => /\ result[s].status = "Ok"
                   /\ result[s].value = 0
        /\ result[s].status = "Ok" => result[s].value >= 0

\* solve() answered 0 on a registry whose only rate is negative
C10_Witness ==
    /\ Returned(1)
    /\ result[1].registry = (Coal :> -30)
    /\ result[1].status = "Ok"
    /\ result[1].value = 0
    /\ last_call.op = "solve"

====
